---- MODULE Spec2Model ----
(***************************************************************************)
(* A model of the sandwich pipeline of the MEV bot:                        *)
(*   NonceManager          (src/unnamed/part_001, lines 397-485)           *)
(*   FlashbotsMEVExecutor  (src/flashbots.ts)                              *)
(*   ProductionMEVBot      (src/unnamed/part_005, lines 7-127)             *)
(* together with the chain the provider reads: the block height and the    *)
(* account's transaction counts tagged 'latest' and 'pending'.             *)
(*                                                                         *)
(* Every awaited provider call is a suspension point.  The value an await  *)
(* yields is the chain's value at the step that resumes the caller; the    *)
(* chain and the other callbacks move freely between the call and that     *)
(* step.                                                                   *)
(***************************************************************************)
EXTENDS Integers, FiniteSets, Sequences, Bags, TLC

\* ---------------------------------------------------------------- bounds
MaxBlock == 11
StartBlock == 1
MaxChainNonce == 2
MaxNonce == 4
MaxNonceResync == 12
MaxResyncCalls == 1
MaxAttempts == 2

\* ------------------------------------------------------ program constants
\* resyncIfNeeded: "currentBlock - this.lastSyncBlock >= 10"
ResyncBlocks == 10
\* resyncIfNeeded: "this.pendingNonces.size > 10"
MaxPendingNonces == 10

VARIABLES
    \* the chain, as the provider reports it
    blockNumber,      \* provider.getBlockNumber()
    latestCount,      \* provider.getTransactionCount(address, 'latest')
    pendingCount,     \* provider.getTransactionCount(address, 'pending')
    \* NonceManager's fields
    currentNonce,
    pendingNonces,
    lastSyncBlock,
    \* callers of the NonceManager
    phase,            \* where the owner of the NonceManager stands
    resync,           \* resyncIfNeeded calls awaiting the count: each one's currentBlock
    issued,           \* the front nonces getNextNoncePair has returned
    \* history of the sequencer, for stating the properties
    syncKind,         \* the last operation that reset currentNonce
    syncLatest,       \* the chain's 'latest' count as a failure resync resumed
    syncBase,         \* currentNonce as that operation left it
    allocLog,         \* the pairs getNextNoncePair returned since that operation
    event,            \* what the last step computed or did to the NonceManager, if recorded
    \* FlashbotsMEVExecutor and ProductionMEVBot
    att,              \* the mempool callbacks running executeSandwich
    ended,            \* the executeSandwich call that ended in the last step, if any
    \* MempoolMonitor
    mem,              \* the handler of a 'pending' event
    \* FlashLoanArbitrageBot
    scan,             \* the scan pass of scanContinuously
    trades,           \* the records tradeLogger.logTrade was handed in this pass
    arb,              \* start() of the arbitrage bot, isRunning, and whether
                      \* stop() was called
    \* the environment of the process
    config            \* what config.ts read from it

chainVars == <<blockNumber, latestCount, pendingCount>>
nmVars    == <<currentNonce, pendingNonces, lastSyncBlock>>
histVars  == <<syncKind, syncLatest, syncBase, allocLog>>
callVars  == <<phase, resync, issued>>
botVars   == <<att, ended>>
mevVars   == <<chainVars, nmVars, histVars, callVars, event, botVars>>
feedVars  == <<mem, scan, trades, arb, config>>
vars      == <<mevVars, feedVars>>

NoEvent == [op |-> "none"]
NoEnd == [result |-> "none"]
NoHandler == [pc |-> "idle"]
NoScan == [pc |-> "sleep"]
\* the configurations the process may be started with: MIN_ETH_BALANCE is
\* unset (0.008) or 0.1, in millionths of an ETH
Configs ==
    [privateKey : {"", "your_private_key_here", "key"},
     helperContract : {"", "helper"},
     minEthBalance : {8000, 100000}]

\* a key and a helper contract, and the defaults of config.ts
DefaultConfig == [privateKey |-> "key", helperContract |-> "helper", minEthBalance |-> 8000]

\* "private isRunning = false", and start() not yet called
NewBot == [pc |-> "new", isRunning |-> FALSE, stopped |-> FALSE]

\* ----------------------------------------------------------- the provider
\* provider.getTransactionCount(this.address, tag)
TransactionCount(tag) == IF tag = "pending" THEN pendingCount ELSE latestCount

\* ------------------------------------------------------------ the chain
\* a block is mined
MineBlock ==
    /\ blockNumber < MaxBlock
    /\ blockNumber' = blockNumber + 1
    /\ UNCHANGED <<latestCount, pendingCount>>

\* a transaction of the account enters the node's queue
TxQueued ==
    /\ pendingCount < MaxChainNonce
    /\ pendingCount' = pendingCount + 1
    /\ UNCHANGED <<blockNumber, latestCount>>

\* a queued transaction of the account is confirmed
TxMined ==
    /\ latestCount < pendingCount
    /\ latestCount' = latestCount + 1
    /\ UNCHANGED <<blockNumber, pendingCount>>

\* ------------------------------------------------------- NonceManager
\* the history after a reset of currentNonce
Synced(kind) ==
    /\ syncKind' = kind
    /\ syncLatest' = IF kind = "failure" THEN latestCount ELSE 0
    /\ syncBase' = currentNonce'
    /\ allocLog' = <<>>

\* the history after getNextNoncePair
Allocated ==
    /\ allocLog' = Append(allocLog, event'.pair)
    /\ UNCHANGED <<syncKind, syncLatest, syncBase>>

\* an initialize that reads the confirmed count
InitialCount_Latest == TransactionCount("latest")

\* initialize: the count it starts from
InitialCount == TransactionCount("pending")

\* initialize, as "await getTransactionCount(address, 'pending')" resumes
InitializeCount ==
    /\ currentNonce' = InitialCount
    /\ pendingNonces' = {}
    /\ UNCHANGED lastSyncBlock
    /\ event' = [op |-> "init"]

\* initialize, as "await getBlockNumber()" resumes
InitializeBlock ==
    /\ lastSyncBlock' = blockNumber
    /\ UNCHANGED <<currentNonce, pendingNonces>>
    /\ event' = [op |-> "init"]

\* a pair that skips a number
NoncePair_Gap(n) == <<n, n + 2>>

\* getNextNoncePair: the pair it returns
NoncePair(n) == <<n, n + 1>>

\* a sequencer that advances by one: the next pair overlaps the last
AdvanceNonce_ByOne(n) == n + 1

\* a sequencer whose write of the advanced number is lost
AdvanceNonce_Lost(n) == n

\* getNextNoncePair: "this.currentNonce += 2"
AdvanceNonce(n) == n + 2

getNextNoncePair ==
    /\ pendingNonces' = pendingNonces \cup {NoncePair(currentNonce)[1], NoncePair(currentNonce)[2]}
    /\ currentNonce' = AdvanceNonce(currentNonce)
    /\ UNCHANGED lastSyncBlock
    /\ event' = [op |-> "alloc", pair |-> NoncePair(currentNonce)]

\* a confirmation that empties the in-flight set
confirmBundle_Clears(frontRunNonce, backRunNonce) ==
    /\ pendingNonces' = {}
    /\ UNCHANGED <<currentNonce, lastSyncBlock>>
    /\ event' = [op |-> "confirm", pair |-> <<frontRunNonce, backRunNonce>>, before |-> nmVars]

\* confirmBundle: the two deletes
confirmBundle(frontRunNonce, backRunNonce) ==
    /\ pendingNonces' = pendingNonces \ {frontRunNonce, backRunNonce}
    /\ UNCHANGED <<currentNonce, lastSyncBlock>>
    /\ event' = [op |-> "confirm", pair |-> <<frontRunNonce, backRunNonce>>, before |-> nmVars]

\* a failure resync that reads the 'pending' count
FailureCount_Pending == TransactionCount("pending")

\* handleBundleFailure: the count it resyncs to
FailureCount == TransactionCount("latest")

\* a failure resync that also stamps the block of the sync
handleBundleFailure_Stamps ==
    /\ currentNonce' = FailureCount
    /\ pendingNonces' = {}
    /\ lastSyncBlock' = blockNumber
    /\ event' = [op |-> "failure"]

\* a failure resync that leaves the in-flight set as it is
handleBundleFailure_Keeps ==
    /\ currentNonce' = FailureCount
    /\ UNCHANGED <<pendingNonces, lastSyncBlock>>
    /\ event' = [op |-> "failure"]

\* handleBundleFailure, as its await resumes
handleBundleFailure ==
    /\ currentNonce' = FailureCount
    /\ pendingNonces' = {}
    /\ UNCHANGED lastSyncBlock
    /\ event' = [op |-> "failure"]

\* a staleness test with both comparisons off by one
ResyncDue_OffByOne(currentBlock) ==
    \/ currentBlock - lastSyncBlock > ResyncBlocks
    \/ Cardinality(pendingNonces) >= MaxPendingNonces

\* resyncIfNeeded: the condition of its if
ResyncDue(currentBlock) ==
    \/ currentBlock - lastSyncBlock >= ResyncBlocks
    \/ Cardinality(pendingNonces) > MaxPendingNonces

\* a staleness resync that reads the 'latest' count
ResyncCount_Latest == TransactionCount("latest")

\* resyncIfNeeded: the count it resyncs to
ResyncCount == TransactionCount("pending")

\* resyncIfNeeded, as "await getBlockNumber()" resumes: the condition is
\* evaluated; the call returns, or goes on to await the count
ResyncCheck ==
    /\ Len(resync) < MaxResyncCalls
    /\ IF ResyncDue(blockNumber)
         THEN resync' = Append(resync, blockNumber)
         ELSE UNCHANGED resync
    /\ UNCHANGED nmVars
    /\ event' = [op |-> IF ResyncDue(blockNumber) THEN "resyncStart" ELSE "resyncSkip",
                 elapsed |-> blockNumber - lastSyncBlock,
                 inflight |-> Cardinality(pendingNonces),
                 before |-> nmVars]

\* the calls awaiting their count, without the r-th
Resumed(r) == [i \in 1..(Len(resync) - 1) |-> IF i < r THEN resync[i] ELSE resync[i + 1]]

\* resyncIfNeeded, as the awaited count rejects: the call ends, nothing assigned
ResyncReject(r) ==
    /\ resync' = Resumed(r)
    /\ UNCHANGED nmVars
    /\ event' = NoEvent

\* resyncIfNeeded, as "await getTransactionCount(address, 'pending')" resumes
ResyncApply(r) ==
    /\ currentNonce' = ResyncCount
    /\ pendingNonces' = {}
    /\ lastSyncBlock' = resync[r]
    /\ resync' = Resumed(r)
    /\ event' = [op |-> "resync", block |-> resync[r]]

\* ------------------------------------------- NonceManager under any caller
\* The class with its owner calling initialize first and then any of the
\* operations in any interleaving, the chain moving in between.
InitNM ==
    /\ blockNumber = StartBlock
    /\ latestCount = 0
    /\ pendingCount \in 0..MaxChainNonce
    /\ currentNonce = 0
    /\ pendingNonces = {}
    /\ lastSyncBlock = 0
    /\ phase = "nonceCount"
    /\ resync = <<>>
    /\ issued = {}
    /\ syncKind = "new"
    /\ syncLatest = 0
    /\ syncBase = 0
    /\ allocLog = <<>>
    /\ event = NoEvent
    /\ att = EmptyBag
    /\ ended = NoEnd
    /\ mem = NoHandler
    /\ scan = NoScan
    /\ trades = <<>>
    /\ arb = NewBot
    /\ config = DefaultConfig

Chain ==
    /\ MineBlock \/ TxQueued \/ TxMined
    /\ event' = NoEvent
    /\ UNCHANGED <<nmVars, histVars, callVars, botVars>>
    /\ UNCHANGED feedVars

NM_InitializeCount ==
    /\ phase = "nonceCount"
    /\ InitializeCount
    /\ Synced("init")
    /\ phase' = "nonceBlock"
    /\ UNCHANGED <<chainVars, resync, issued, botVars>>
    /\ UNCHANGED feedVars

NM_InitializeBlock ==
    /\ phase = "nonceBlock"
    /\ InitializeBlock
    /\ phase' = "running"
    /\ UNCHANGED <<chainVars, histVars, resync, issued, botVars>>
    /\ UNCHANGED feedVars

NM_Allocate ==
    /\ phase = "running"
    /\ AdvanceNonce(currentNonce) <= MaxNonce
    /\ getNextNoncePair
    /\ Allocated
    /\ issued' = issued \cup {currentNonce}
    /\ UNCHANGED <<chainVars, phase, resync, botVars>>
    /\ UNCHANGED feedVars

NM_Confirm ==
    /\ phase = "running"
    /\ \E f \in issued :
          /\ confirmBundle(f, f + 1)
          /\ issued' = issued \ {f}
    /\ UNCHANGED <<chainVars, histVars, phase, resync, botVars>>
    /\ UNCHANGED feedVars

NM_Failure ==
    /\ phase = "running"
    /\ handleBundleFailure
    /\ Synced("failure")
    /\ UNCHANGED <<chainVars, callVars, botVars>>
    /\ UNCHANGED feedVars

NM_ResyncCheck ==
    /\ phase = "running"
    /\ ResyncCheck
    /\ UNCHANGED <<chainVars, histVars, phase, issued, botVars>>
    /\ UNCHANGED feedVars

NM_ResyncApply ==
    /\ phase = "running"
    /\ \E r \in 1..Len(resync) : ResyncApply(r)
    /\ Synced("resync")
    /\ UNCHANGED <<chainVars, phase, issued, botVars>>
    /\ UNCHANGED feedVars

NM_ResyncReject ==
    /\ phase = "running"
    /\ \E r \in 1..Len(resync) : ResyncReject(r)
    /\ UNCHANGED <<chainVars, histVars, phase, issued, botVars>>
    /\ UNCHANGED feedVars

NextNM ==
    \/ Chain
    \/ NM_InitializeCount
    \/ NM_InitializeBlock
    \/ NM_Allocate
    \/ NM_Confirm
    \/ NM_Failure
    \/ NM_ResyncCheck
    \/ NM_ResyncApply
    \/ NM_ResyncReject

SpecNM == InitNM /\ [][NextNM]_vars

\* ------------------------------------- NonceManager with many in flight
\* The same class with callers that allocate and never confirm, so that the
\* in-flight set grows past MaxPendingNonces.
RS_Allocate ==
    /\ phase = "running"
    /\ AdvanceNonce(currentNonce) <= MaxNonceResync
    /\ getNextNoncePair
    /\ Allocated
    /\ UNCHANGED <<chainVars, callVars, botVars>>
    /\ UNCHANGED feedVars

NextResync ==
    \/ Chain
    \/ NM_InitializeCount
    \/ NM_InitializeBlock
    \/ RS_Allocate
    \/ NM_Failure
    \/ NM_ResyncCheck
    \/ NM_ResyncApply
    \/ NM_ResyncReject

SpecResync == InitNM /\ [][NextResync]_vars

\* ------------------------------------------------ amounts and numbers
\* A bigint or BigNumber amount of base units is kept in two parts,
\* micro * 10^12 + atto, with atto far below 10^12 in size: for an asset of
\* 18 decimals micro counts millionths of a unit and atto single base units.
Amount(micro, atto) == [micro |-> micro, atto |-> atto]

\* a.sub(b)
Sub(a, b) == Amount(a.micro - b.micro, a.atto - b.atto)

\* a.isNegative()
IsNegative(a) == a.micro < 0 \/ (a.micro = 0 /\ a.atto < 0)

\* a.gt(b)
Gt(a, b) == IsNegative(Sub(b, a))

\* A JavaScript number is a double.  It is kept as the millionths of its
\* value and, next to the one threshold it is compared with, its distance
\* from those millionths in units of 10^-20; away from the threshold the
\* millionths decide every comparison and the distance is kept as 0.
Double(micro, centi) == [micro |-> micro, centi |-> centi]

\* x < y on numbers
NumLt(x, y) == x.micro < y.micro \/ (x.micro = y.micro /\ x.centi < y.centi)

\* The double nearest to a decimal that lies centi * 10^-20 from a threshold,
\* where the doubles around the threshold lie at offset + k * step.
NearestDouble(centi, offset, step) ==
    offset + step * ((2 * (centi - offset) + step) \div (2 * step))

\* ------------------------------------------------ FlashbotsMEVExecutor
\* Amounts are in units of 0.00005 ETH (50,000 gwei), gas limits in units of
\* 50,000 gas and fees in gwei per gas, so that limit * fee is an amount.
\* config.flashbots.minProfitEth, 0.001 ETH
MinProfit == 20
\* frontGasLimit, 300_000
FrontGasLimit == 6
\* backGasLimit, 350_000
BackGasLimit == 7
\* victimGasLimit, the default 200_000
VictimGasLimit == 4

\* what the mempool decoder estimates for the opportunities it emits
Profits == {10, 40}
\* op.targetTxRaw: the victims' signed transactions, by what they encode
Raws == {[from |-> "victim", to |-> "router", nonce |-> 7],
         [from |-> "victim", to |-> "router", nonce |-> 8]}
NoRaw == [from |-> "none", to |-> "none", nonce |-> -1]
\* feeData as the provider reports it, when both fees are there
Fees == {[maxFeePerGas |-> 1, maxPriorityFeePerGas |-> 1],
         [maxFeePerGas |-> 2, maxPriorityFeePerGas |-> 1],
         [maxFeePerGas |-> 3, maxPriorityFeePerGas |-> 2]}

\* op.targetTxParsed of the victim whose signed bytes are raw: the first
\* victim's comes without a gasLimit, the second's with 350,000
TargetTxParsed(raw) == [gasLimit |-> IF raw.nonce = 7 THEN <<>> ELSE <<7>>]

\* victimGasLimit: "op.targetTxParsed.gasLimit ?? 200_000n"
VictimGasLimitOf(targetTxParsed) ==
    IF targetTxParsed.gasLimit = <<>> THEN VictimGasLimit ELSE targetTxParsed.gasLimit[1]

\* a gas cost that leaves the victim's gas out
TotalGasCost_NoVictim(maxFee, victimGasLimit) ==
    FrontGasLimit * maxFee + BackGasLimit * maxFee

\* executeSandwich: totalGasCostWei
TotalGasCost(maxFee, victimGasLimit) ==
    FrontGasLimit * maxFee + victimGasLimit * maxFee + BackGasLimit * maxFee

\* a net profit that leaves the gas cost out
NetProfit_Gross(estimatedProfitWei, totalGasCostWei) == estimatedProfitWei

\* executeSandwich: netProfitWei
NetProfit(estimatedProfitWei, totalGasCostWei) ==
    IF estimatedProfitWei > totalGasCostWei
      THEN estimatedProfitWei - totalGasCostWei
      ELSE 0

\* a bribe of the whole net profit
BribeAmount_All(netProfitWei) == netProfitWei

\* bribeAmountWei: "netProfitWei * 80n / 100n"
BribeAmount(netProfitWei) == (netProfitWei * 80) \div 100

\* bribePriorityFeePerGas: "bribeAmountWei / backGasLimit"
BribePriorityFeePerGas(bribeAmountWei) == bribeAmountWei \div BackGasLimit

\* backRunPriorityFee
BackRunPriorityFee(maxPriorityFeePerGas, netProfitWei) ==
    maxPriorityFeePerGas + BribePriorityFeePerGas(BribeAmount(netProfitWei))

\* The running mempool callbacks are a bag of records: callbacks are not
\* told apart beyond what they hold.
Running == BagToSet(att)
NewAttempt == [pc |-> "fee", front |-> -1, back |-> -1, profit |-> 0,
               raw |-> NoRaw, fee |-> 0, bundle |-> <<>>, why |-> "none",
               calls |-> 0, included |-> FALSE, sent |-> 0, backRunPriorityFee |-> 0]
Without(r) == att (-) SetToBag({r})
Becomes(r, q) == att' = Without(r) (+) SetToBag({q})

\* the nonces an attempt holds
Held(r) == {r.front, r.back}

\* frontTxSigned: the front-run, to the router, with frontNonce
FrontRunTx(frontNonce) == [from |-> "wallet", to |-> "router", nonce |-> frontNonce]

\* backTxSigned: the back-run, to the helper contract, with backNonce
BackRunTx(backNonce, maxFeePerGas, backRunPriorityFee) ==
    [from |-> "wallet", to |-> "helper", nonce |-> backNonce,
     gasLimit |-> BackGasLimit, maxFeePerGas |-> maxFeePerGas,
     maxPriorityFeePerGas |-> backRunPriorityFee]

\* a bundle that puts the victim last
SignedBundle_VictimLast(frontTxSigned, targetTxRaw, backTxSigned) ==
    << [signedTransaction |-> frontTxSigned],
       [signedTransaction |-> backTxSigned],
       [signedTransaction |-> targetTxRaw] >>

\* signedBundle
SignedBundle(frontTxSigned, targetTxRaw, backTxSigned) ==
    << [signedTransaction |-> frontTxSigned],
       [signedTransaction |-> targetTxRaw],
       [signedTransaction |-> backTxSigned] >>

\* where the pending handleBundleFailure call stands in executeSandwich:
\* before the try (lines 69, 94), in it (148, 159) or in its catch (164)
Site(r) ==
    IF r.why \in {"fee", "net"} THEN "before"
    ELSE IF r.why \in {"sim", "notIncluded"} /\ r.calls = 1 THEN "try"
    ELSE "catch"

\* executeSandwich returns, or throws
Return(r, result) ==
    ended' = [result |-> result, front |-> r.front, why |-> r.why,
              calls |-> r.calls, from |-> r.pc]

\* the attempt stays suspended, now as q: nothing of the sequencer moves
Continues(r, q) ==
    /\ Becomes(r, q)
    /\ ended' = NoEnd
    /\ event' = NoEvent
    /\ UNCHANGED <<chainVars, nmVars, histVars, callVars>>
    /\ UNCHANGED feedVars

\* the attempt stays suspended, now at pc
Local(r, pc) == Continues(r, [r EXCEPT !.pc = pc])

\* executeSandwich awaits nonceManager.handleBundleFailure(): nothing of the
\* sequencer moves yet
Failed(r, why) ==
    [r EXCEPT !.pc = "failure", !.why = why, !.calls = @ + 1,
              !.profit = 0, !.raw = NoRaw, !.fee = 0, !.backRunPriorityFee = 0,
              !.bundle = <<>>, !.included = FALSE]

Fails(r, why) ==
    /\ Becomes(r, Failed(r, why))
    /\ ended' = NoEnd
    /\ event' = NoEvent
    /\ UNCHANGED <<chainVars, nmVars, histVars, callVars>>
    /\ UNCHANGED feedVars

\* an exception leaves executeSandwich and rejects the mempool callback
Throws(r) ==
    /\ Return(r, "threw")
    /\ att' = Without(r)
    /\ event' = NoEvent
    /\ UNCHANGED <<chainVars, nmVars, histVars, callVars>>
    /\ UNCHANGED feedVars

\* executeSandwich, the gross check fails: no allocation
Skip(profit) ==
    /\ phase = "running"
    /\ profit < MinProfit
    /\ ended' = [result |-> "false", front |-> -1, why |-> "gross", calls |-> 0,
                 from |-> "start"]
    /\ event' = NoEvent
    /\ UNCHANGED <<chainVars, nmVars, histVars, callVars, att>>
    /\ UNCHANGED feedVars

\* executeSandwich, up to "await getFeeData()": the pair is allocated
Allocate(profit, raw) ==
    /\ phase = "running"
    /\ BagCardinality(att) < MaxAttempts
    /\ ~(profit < MinProfit)
    /\ AdvanceNonce(currentNonce) <= MaxNonce
    /\ getNextNoncePair
    /\ att' = att (+) SetToBag({[NewAttempt EXCEPT !.profit = profit,
                                           !.raw = raw,
                                           !.front = NoncePair(currentNonce)[1],
                                           !.back = NoncePair(currentNonce)[2]]})
    /\ ended' = NoEnd
    /\ UNCHANGED <<chainVars, histVars, callVars>>
    /\ UNCHANGED feedVars

\* "await getFeeData()" rejects: outside the try
FeeReject(r) == r.pc = "fee" /\ Throws(r)

\* "await getFeeData()" resumes without maxFeePerGas or maxPriorityFeePerGas
FeeMissing(r) == r.pc = "fee" /\ Fails(r, "fee")

\* "await getFeeData()" resumes with fees: the net check, then the front-run is signed
FeeData(r, feeData) ==
    /\ r.pc = "fee"
    /\ LET victimGasLimit == VictimGasLimitOf(TargetTxParsed(r.raw))
           maxFee == feeData.maxFeePerGas
           totalGasCostWei == TotalGasCost(maxFee, victimGasLimit)
           estimatedProfitWei == r.profit
           netProfitWei == NetProfit(estimatedProfitWei, totalGasCostWei)
           backRunPriorityFee == BackRunPriorityFee(feeData.maxPriorityFeePerGas, netProfitWei)
       IN  /\ IF netProfitWei < MinProfit
                THEN Becomes(r, Failed(r, "net"))
                ELSE Becomes(r, [r EXCEPT !.pc = "sign", !.fee = maxFee,
                                          !.backRunPriorityFee = backRunPriorityFee])
           /\ event' = [op |-> "netProfit", maxFee |-> maxFee,
                        maxPriorityFeePerGas |-> feeData.maxPriorityFeePerGas,
                        victimGasLimit |-> victimGasLimit,
                        totalGasCostWei |-> totalGasCostWei,
                        estimatedProfitWei |-> estimatedProfitWei,
                        netProfitWei |-> netProfitWei,
                        signs |-> ~(netProfitWei < MinProfit),
                        backRunPriorityFee |-> backRunPriorityFee]
    /\ ended' = NoEnd
    /\ UNCHANGED <<chainVars, nmVars, histVars, callVars>>
    /\ UNCHANGED feedVars

\* "await wallet.signTransaction" rejects, for the front-run or the back-run
SignReject(r) == r.pc = "sign" /\ Throws(r)

\* both transactions are signed and the bundle is built; getBlockNumber is
\* awaited
Signed(r) ==
    /\ r.pc = "sign"
    /\ Continues(r, [r EXCEPT !.pc = "block",
                              !.bundle = SignedBundle(FrontRunTx(r.front), r.raw,
                                                      BackRunTx(r.back, r.fee, r.backRunPriorityFee))])

\* "await getBlockNumber()" rejects: still outside the try
BlockReject(r) == r.pc = "block" /\ Throws(r)

\* "await getBlockNumber()" resumes: sendRawBundle is called
BlockRead(r) ==
    /\ r.pc = "block"
    /\ Continues(r, [r EXCEPT !.pc = "send", !.sent = @ + 1])

\* a catch block that submits the bundle again
SubmitReject_Retry(r) ==
    /\ r.pc \in {"send", "sim"}
    /\ Continues(r, [r EXCEPT !.pc = "send", !.sent = @ + 1])

\* sendRawBundle or simulate rejects: the catch block
SubmitReject(r) == r.pc \in {"send", "sim"} /\ Fails(r, "submit")

\* "await sendRawBundle" resumes: the bundle is with the relay
Sent(r) == r.pc = "send" /\ Local(r, "sim")

\* "await bundle.simulate()" resumes with an error object
SimError(r) == r.pc = "sim" /\ Fails(r, "sim")

\* "await bundle.simulate()" resumes without: bundle.wait() is awaited
Simulated(r) == r.pc = "sim" /\ Local(r, "wait")

\* the chain includes a bundle: its front-run carries the account's next nonce
BundleIncluded(r) ==
    /\ r.pc = "wait"
    /\ ~r.included
    /\ r.front = latestCount
    /\ latestCount' = latestCount + 2
    /\ pendingCount' = IF pendingCount < latestCount' THEN latestCount' ELSE pendingCount
    /\ Becomes(r, [r EXCEPT !.included = TRUE])
    /\ ended' = NoEnd
    /\ event' = NoEvent
    /\ UNCHANGED <<blockNumber, nmVars, histVars, callVars>>
    /\ UNCHANGED feedVars

\* "await bundle.wait()" resumes with 0: confirmBundle, return true; the
\* callback goes on to withdrawProfits
WaitIncluded(r) ==
    /\ r.pc = "wait"
    /\ r.included
    /\ confirmBundle(r.front, r.back)
    /\ Return(r, "true")
    /\ Becomes(r, [NewAttempt EXCEPT !.pc = "withdraw"])
    /\ UNCHANGED <<chainVars, histVars, callVars>>
    /\ UNCHANGED feedVars

\* "await bundle.wait()" resumes with another code
WaitNotIncluded(r) ==
    /\ r.pc = "wait"
    /\ ~r.included
    /\ Fails(r, "notIncluded")

\* "await bundle.wait()" rejects: the catch block
WaitReject(r) == r.pc = "wait" /\ Fails(r, "submit")

\* "await nonceManager.handleBundleFailure()" resumes: return false
FailureHandled(r) ==
    /\ r.pc = "failure"
    /\ handleBundleFailure
    /\ Return(r, "false")
    /\ att' = Without(r)
    /\ UNCHANGED <<chainVars, histVars, callVars>>
    /\ UNCHANGED feedVars

\* "await nonceManager.handleBundleFailure()" rejects: inside the try the
\* catch block calls it again, elsewhere the exception leaves executeSandwich
FailureReject(r) ==
    /\ r.pc = "failure"
    /\ IF Site(r) = "try"
         THEN Fails(r, r.why)
         ELSE Throws(r)

\* ---------------------------------------------------- ProductionMEVBot
\* withdrawProfits: nothing to withdraw, or a provider call rejects (caught),
\* or tx.wait() resumes: the callback ends
WithdrawEnds(r) ==
    /\ r.pc \in {"withdraw", "withdrawWait"}
    /\ att' = Without(r)
    /\ ended' = NoEnd
    /\ event' = NoEvent
    /\ UNCHANGED <<chainVars, nmVars, histVars, callVars>>
    /\ UNCHANGED feedVars

\* withdrawProfits: wallet.sendTransaction, which takes the 'pending' count
\* as the nonce; tx.wait() is awaited
WithdrawSend(r) ==
    /\ r.pc = "withdraw"
    /\ pendingCount < MaxNonce
    /\ pendingCount' = TransactionCount("pending") + 1
    /\ Becomes(r, [r EXCEPT !.pc = "withdrawWait"])
    /\ ended' = NoEnd
    /\ event' = NoEvent
    /\ UNCHANGED <<blockNumber, latestCount, nmVars, histVars, callVars>>
    /\ UNCHANGED feedVars

\* the timer of start(): executor.periodicResync(), whose body is a comment
periodicResync ==
    /\ phase = "running"
    /\ event' = [op |-> "tick"]
    /\ ended' = NoEnd
    /\ UNCHANGED <<chainVars, nmVars, histVars, callVars, att>>
    /\ UNCHANGED feedVars


\* a validateConfig that asks for the key alone
validateConfig_KeyOnly ==
    ~(config.privateKey = "" \/ config.privateKey = "your_private_key_here")

\* validateConfig() returns without throwing
validateConfig ==
    /\ ~(config.privateKey = "" \/ config.privateKey = "your_private_key_here")
    /\ config.helperContract # ""

\* new ProductionMEVBot(): validateConfig() comes first; when it throws, the
\* startup logs "Fatal error during startup" and exits
Constructed ==
    /\ phase = "construct"
    /\ phase' = IF validateConfig THEN "balance" ELSE "fatal"
    /\ event' = [op |-> "validateConfig"]
    /\ UNCHANGED <<chainVars, nmVars, histVars, resync, issued, botVars>>
    /\ UNCHANGED feedVars

\* The doubles around a minimum balance, in units of 10^-20 from it: around
\* 0.008 they lie 2^-59 = 1.73 * 10^-18 apart and the nearest to 0.008 lies
\* 0.17 * 10^-18 above it; around 0.1 they lie 2^-56 = 13.88 * 10^-18 apart
\* and the nearest to 0.1 lies 5.55 * 10^-18 above it
Grid(micro) ==
    IF micro = 8000 THEN [offset |-> 17, step |-> 173]
                    ELSE [offset |-> 555, step |-> 1388]

\* config.wallet.minEthBalance, parseFloat of MIN_ETH_BALANCE or of '0.008'
minEthBalance == Double(config.minEthBalance, Grid(config.minEthBalance).offset)

\* parseFloat(ethers.formatEther(balance))
BalanceEth(balance) ==
    Double(balance.micro,
           IF balance.micro = config.minEthBalance
             THEN NearestDouble(100 * balance.atto, Grid(balance.micro).offset,
                                Grid(balance.micro).step)
             ELSE 0)

\* the balances an account is read with: none, a minimum, and one wei less
Balances == {Amount(0, 0), Amount(8000, -1), Amount(8000, 0), Amount(100000, -1),
             Amount(100000, 0), Amount(500000, -1), Amount(500000, 0)}

\* start(): "while (!(await this.checkBalance()))": getBalance resumes, and
\* the loop is left or sleeps and asks again
BalanceChecked(balance) ==
    /\ phase = "balance"
    /\ phase' = IF ~NumLt(BalanceEth(balance), minEthBalance) THEN "create" ELSE "balance"
    /\ event' = [op |-> "checkBalance", balance |-> balance]
    /\ UNCHANGED <<chainVars, nmVars, histVars, resync, issued, botVars>>
    /\ UNCHANGED feedVars

\* executor.initialize(): FlashbotsBundleProvider.create resumes
RelayCreated ==
    /\ phase = "create"
    /\ phase' = "nonceCount"
    /\ event' = NoEvent
    /\ UNCHANGED <<chainVars, nmVars, histVars, resync, issued, botVars>>
    /\ UNCHANGED feedVars

\* executor.initialize(): nonceManager.initialize()
Bot_InitializeCount ==
    /\ phase = "nonceCount"
    /\ InitializeCount
    /\ phase' = "nonceBlock"
    /\ UNCHANGED <<chainVars, histVars, resync, issued, botVars>>
    /\ UNCHANGED feedVars

Bot_InitializeBlock ==
    /\ phase = "nonceBlock"
    /\ InitializeBlock
    /\ phase' = "network"
    /\ UNCHANGED <<chainVars, histVars, resync, issued, botVars>>
    /\ UNCHANGED feedVars

\* executor.initialize(): getNetwork resumes; mempool.start and setInterval
Started ==
    /\ phase = "network"
    /\ phase' = "running"
    /\ event' = NoEvent
    /\ UNCHANGED <<chainVars, nmVars, histVars, resync, issued, botVars>>
    /\ UNCHANGED feedVars

\* the constructor throws or a provider call of the startup rejects: "Fatal
\* error during startup", exit
StartupFailed ==
    /\ phase \in {"construct", "balance", "create", "nonceCount", "nonceBlock", "network"}
    /\ phase' = "fatal"
    /\ event' = NoEvent
    /\ UNCHANGED <<chainVars, nmVars, histVars, resync, issued, botVars>>
    /\ UNCHANGED feedVars

\* the chain while the bot runs: a queued transaction of the account is mined
Bot_TxMined ==
    /\ TxMined
    /\ event' = NoEvent
    /\ ended' = NoEnd
    /\ UNCHANGED <<nmVars, histVars, callVars, att>>
    /\ UNCHANGED feedVars

Init ==
    /\ blockNumber = StartBlock
    /\ latestCount = 0
    /\ pendingCount = 0
    /\ currentNonce = 0
    /\ pendingNonces = {}
    /\ lastSyncBlock = 0
    /\ phase = "construct"
    /\ resync = <<>>
    /\ issued = {}
    /\ syncKind = "new"
    /\ syncLatest = 0
    /\ syncBase = 0
    /\ allocLog = <<>>
    /\ event = NoEvent
    /\ att = EmptyBag
    /\ ended = NoEnd
    /\ mem = NoHandler
    /\ scan = NoScan
    /\ trades = <<>>
    /\ arb = NewBot
    /\ config = DefaultConfig

Startup ==
    \/ Constructed
    \/ \E balance \in Balances : BalanceChecked(balance)
    \/ RelayCreated
    \/ Bot_InitializeCount
    \/ Bot_InitializeBlock
    \/ Started
    \/ StartupFailed

executeSandwich(r) ==
    \/ FeeReject(r)
    \/ FeeMissing(r)
    \/ \E feeData \in Fees : FeeData(r, feeData)
    \/ SignReject(r)
    \/ Signed(r)
    \/ BlockReject(r)
    \/ BlockRead(r)
    \/ SubmitReject(r)
    \/ Sent(r)
    \/ SimError(r)
    \/ Simulated(r)
    \/ WaitIncluded(r)
    \/ WaitNotIncluded(r)
    \/ WaitReject(r)
    \/ FailureHandled(r)
    \/ FailureReject(r)

withdrawProfits(r) ==
    \/ WithdrawEnds(r)
    \/ WithdrawSend(r)

Next ==
    \/ Startup
    \/ \E profit \in Profits : Skip(profit)
    \/ \E profit \in Profits, raw \in Raws : Allocate(profit, raw)
    \/ \E r \in Running : executeSandwich(r)
    \/ \E r \in Running : withdrawProfits(r)
    \/ \E r \in Running : BundleIncluded(r)
    \/ Bot_TxMined
    \/ periodicResync

Spec == Init /\ [][Next]_vars

\* ------------------------------------------- the bot on a quiet mempool
\* the chain while the bot runs: a block is mined
Bot_MineBlock ==
    /\ MineBlock
    /\ event' = NoEvent
    /\ ended' = NoEnd
    /\ UNCHANGED <<nmVars, histVars, callVars, att>>
    /\ UNCHANGED feedVars

\* the timer's callback has resolved and the next 30 s run
TimerElapsed ==
    /\ phase = "running"
    /\ event.op = "tick"
    /\ event' = NoEvent
    /\ ended' = NoEnd
    /\ UNCHANGED <<chainVars, nmVars, histVars, callVars, att>>
    /\ UNCHANGED feedVars

\* no opportunity arrives: the startup, the chain and the 30 s timer
NextTimer ==
    \/ Startup
    \/ Bot_MineBlock
    \/ periodicResync
    \/ TimerElapsed

\* setInterval fires again and again
SpecTimer ==
    Init /\ [][NextTimer]_vars /\ WF_vars(periodicResync) /\ WF_vars(TimerElapsed)

\* ------------------------------------- the bot's start on a live chain
\* The account may have transactions queued or mined by the time the bot
\* starts, and the chain moves while start() runs.  The callbacks are
\* followed up to their first await.
InitStart ==
    /\ blockNumber = StartBlock
    /\ latestCount = 0
    /\ pendingCount \in 0..MaxChainNonce
    /\ currentNonce = 0
    /\ pendingNonces = {}
    /\ lastSyncBlock = 0
    /\ phase = "construct"
    /\ resync = <<>>
    /\ issued = {}
    /\ syncKind = "new"
    /\ syncLatest = 0
    /\ syncBase = 0
    /\ allocLog = <<>>
    /\ event = NoEvent
    /\ att = EmptyBag
    /\ ended = NoEnd
    /\ mem = NoHandler
    /\ scan = NoScan
    /\ trades = <<>>
    /\ arb = NewBot
    /\ config \in Configs

\* the chain while the bot starts: a transaction of the account is queued
Bot_TxQueued ==
    /\ TxQueued
    /\ event' = NoEvent
    /\ ended' = NoEnd
    /\ UNCHANGED <<nmVars, histVars, callVars, att>>
    /\ UNCHANGED feedVars

NextStart ==
    \/ Startup
    \/ Bot_MineBlock
    \/ Bot_TxQueued
    \/ Bot_TxMined
    \/ \E profit \in Profits : Skip(profit)
    \/ \E profit \in Profits, raw \in Raws : Allocate(profit, raw)

SpecStart == InitStart /\ [][NextStart]_vars

\* ------------------------------------------------------ MempoolMonitor
\* swapExactETHForTokens, swapExactTokensForETH, swapExactTokensForTokens
Selectors == {"0x7ff36ab5", "0x18cbafe5", "0x38ed1739"}

\* minTradeValueEth, 0.1 ETH, in millionths of an ETH
MinTradeMicro == 100000

\* the double 0.1 lies 5.55 * 10^-18 above 0.1 and the doubles around it
\* 2^-56 = 13.88 * 10^-18 apart
minTradeValueEth == Double(MinTradeMicro, 555)

\* parseFloat(ethers.formatEther(amountIn)): the string has all 18 decimals,
\* the number is the double nearest to it
ParseFloatEther(amountIn) ==
    Double(amountIn.micro, IF amountIn.micro = MinTradeMicro
                             THEN NearestDouble(100 * amountIn.atto, 555, 1388)
                             ELSE 0)

\* (amountInEth * 0.003).toFixed(6), in millionths of an ETH
EstimatedProfitEth(amountInEth) == (3 * amountInEth.micro + 500) \div 1000

\* amounts of wei a pending transaction carries
TradeAmounts == {Amount(0, 0), Amount(50000, 0), Amount(100000, -2),
                 Amount(100000, -1), Amount(100000, 0), Amount(500000, 0)}

\* the pending transactions the node reports; decodes tells whether the
\* calldata parses as one of the three swap functions
PendingTxs ==
    [to : {"router", "Router", "other", "none"},
     selector : Selectors \cup {"0xa9059cbb"},
     decodes : BOOLEAN,
     path : {<<"WETH">>, <<"WETH", "DAI">>, <<"DAI", "USDC", "WETH">>},
     value : TradeAmounts,
     amountIn : {Amount(50000, 0), Amount(100000, -1), Amount(500000, 0)}]

\* tx.to.toLowerCase()
ToLowerCase(address) == IF address = "Router" THEN "router" ELSE address

NoOpportunity == [type |-> "null"]

\* tokenIn: "path[0]"
TokenIn(path) == path[1]

\* a decoder that takes the second entry of the path for the output token
TokenOut_Second(path) == path[2]

\* tokenOut: "path[path.length - 1]"
TokenOut(path) == path[Len(path)]

\* iface.parseTransaction throws, or returns null: caught inside
\* analyzeTransaction, which returns null
DecodeFails(tx) ==
    /\ tx.to # "none"
    /\ ToLowerCase(tx.to) = "router"
    /\ ~(tx.decodes /\ tx.selector \in Selectors)

\* analyzeTransaction(tx, rawTx)
analyzeTransaction(tx, rawTx) ==
    IF tx.to = "none" \/ ToLowerCase(tx.to) # "router" THEN NoOpportunity
    ELSE IF ~(tx.decodes /\ tx.selector \in Selectors) THEN NoOpportunity
    ELSE IF Len(tx.path) < 2 THEN NoOpportunity
    ELSE LET amountIn == IF tx.selector = "0x7ff36ab5" THEN tx.value ELSE tx.amountIn
             amountInEth == ParseFloatEther(amountIn)
         IN  IF NumLt(amountInEth, minTradeValueEth) THEN NoOpportunity
             ELSE [type |-> "sandwich",
                   targetTxRaw |-> rawTx,
                   targetTxParsed |-> tx,
                   tokenIn |-> TokenIn(tx.path),
                   tokenOut |-> TokenOut(tx.path),
                   amountIn |-> amountIn,
                   estimatedProfitEth |-> EstimatedProfitEth(amountInEth)]

\* executeOpportunity: tradeRecord, and the copies of it with another status
TradeRecord(opp, status) == [id |-> "TRADE", status |-> status, pair |-> opp.id]

\* tradeLogger.logTrade(trade)
logTrade(trade) == Append(trades, trade)

\* the 'pending' handler and the scanner leave the sandwich pipeline alone;
\* a pass that goes on to executeOpportunity has logged the pending record
\* by the time it awaits getFeeData
Feed(mem2, scan2) ==
    /\ mem' = mem2
    /\ scan' = scan2
    /\ trades' = IF scan2.pc = "execute" /\ scan.pc # "execute"
                   THEN logTrade(TradeRecord(scan2.opportunities[1], "pending"))
                   ELSE trades
    /\ UNCHANGED <<arb, config>>
    /\ UNCHANGED mevVars

\* provider.on('pending'): the handler awaits getTransaction(txHash)
PendingEvent(tx) ==
    /\ mem.pc \in {"idle", "done"}
    /\ Feed([pc |-> "getTransaction", tx |-> tx], scan)

\* a handler whose catch block lets the error go
Swallowed_Unhandled(error) == [pc |-> "unhandled", error |-> error]

\* the handler ends in a catch block: "Silently ignore minor mempool errors"
\* in start(), or "return null" in getRawTransaction, after which start()
\* returns
Swallowed(error) ==
    [pc |-> "done", tx |-> mem.tx, rawTx |-> NoRaw, called |-> FALSE,
     opportunity |-> NoOpportunity, error |-> error]

\* getTransaction rejects: the catch block of the handler
TransactionRejected ==
    /\ mem.pc = "getTransaction"
    /\ Feed(Swallowed("getTransaction"), scan)

\* getTransaction resumes with null: the handler ends
TransactionGone ==
    /\ mem.pc = "getTransaction"
    /\ Feed(NoHandler, scan)

\* getTransaction resumes with the transaction: getRawTransaction is awaited
TransactionFetched ==
    /\ mem.pc = "getTransaction"
    /\ Feed([mem EXCEPT !.pc = "getRawTransaction"], scan)

\* eth_getRawTransactionByHash, or the fallback's getTransaction or
\* serialization, throws: getRawTransaction catches it and returns null
RawRejected ==
    /\ mem.pc = "getRawTransaction"
    /\ Feed(Swallowed("getRawTransaction"), scan)

\* getRawTransaction resumes with null: the handler ends
RawGone ==
    /\ mem.pc = "getRawTransaction"
    /\ Feed(NoHandler, scan)

\* getRawTransaction resumes with the raw transaction: analyzeTransaction,
\* and callback(opportunity) if it returned one
RawFetched(rawTx) ==
    /\ mem.pc = "getRawTransaction"
    /\ LET opportunity == analyzeTransaction(mem.tx, rawTx)
       IN  Feed([pc |-> "done", tx |-> mem.tx, rawTx |-> rawTx,
                 called |-> opportunity # NoOpportunity,
                 opportunity |-> opportunity,
                 error |-> IF DecodeFails(mem.tx) THEN "decode" ELSE "none"], scan)

NextMempool ==
    \/ \E tx \in PendingTxs : PendingEvent(tx)
    \/ TransactionRejected
    \/ TransactionGone
    \/ TransactionFetched
    \/ RawRejected
    \/ RawGone
    \/ \E rawTx \in Raws : RawFetched(rawTx)

SpecMempool == Init /\ [][NextMempool]_vars

\* ------------------------------------------------ FlashLoanArbitrageBot
\* config.tokens and config.dexes of the Polygon configuration
Tokens == << [symbol |-> "WMATIC", decimals |-> 18],
             [symbol |-> "USDC", decimals |-> 6],
             [symbol |-> "WETH", decimals |-> 18] >>
Dexes == << "QuickSwap", "SushiSwap" >>

\* MIN_PROFIT_PERCENT, 0.15, in millionths
MinProfitMicro == 150000

\* MAX_GAS_COST_GWEI, the maxPriorityFee of the Polygon configuration in gwei
MaxGasCostGwei == 50

\* the double 0.15 lies 5.55 * 10^-18 below 0.15 and the doubles around it
\* 2^-55 = 27.76 * 10^-18 apart
MIN_PROFIT_PERCENT == Double(MinProfitMicro, -555)

\* ethers.utils.parseUnits('100', decimals)
BaseBorrowAmount(decimals) ==
    IF decimals = 18 THEN Amount(100000000, 0) ELSE Amount(0, 100000000)

\* baseBorrowAmount.mul(10009).div(10000): BigNumber has no width; each part
\* is computed as b + b * 9 / 10000, which is the same number for the two
\* borrow amounts and stays within the integers of the checker
RepayAmount(baseBorrowAmount) ==
    Amount(baseBorrowAmount.micro + (baseBorrowAmount.micro * 9) \div 10000,
           baseBorrowAmount.atto + (baseBorrowAmount.atto * 9) \div 10000)

\* Number(ethers.utils.formatUnits(amount, decimals)): the double nearest to
\* the decimal string
NumberOfUnits(amount, decimals) ==
    IF decimals = 18
      THEN Double(amount.micro,
                  IF amount.micro = MinProfitMicro
                    THEN NearestDouble(100 * amount.atto, -555, 2776) ELSE 0)
      ELSE Double(amount.atto,
                  IF amount.atto = MinProfitMicro
                    THEN NearestDouble(0, -555, 2776) ELSE 0)

\* (profitInTokenA / Number(formatUnits(baseBorrowAmount))) * 100: the borrow
\* is 100 units, and dividing by 100.0 then multiplying by 100 gives back
\* the same double for the doubles next to 0.15
ProfitPercent(profitInTokenA) == profitInTokenA

\* a scanner that buys where the probe buys more
BuyOnA_Greater(p1, p2) == p2.priceOut < p1.priceOut

\* buyOnA = p1.priceOut.lt(p2.priceOut)
BuyOnA(p1, p2) == p1.priceOut < p2.priceOut

\* a comparator that sorts by rising profit
CompareProfit_Rising(a, b) ==
    IF IsNegative(Sub(a.estimatedProfit, b.estimatedProfit)) THEN -1 ELSE 1

\* the comparator of opportunities.sort
CompareProfit(a, b) ==
    IF IsNegative(Sub(b.estimatedProfit, a.estimatedProfit)) THEN -1 ELSE 1

\* Array.prototype.sort on a short array: each element is inserted before
\* the first element the comparator puts it before
RECURSIVE InsertSorted(_, _)
InsertSorted(x, sorted) ==
    IF sorted = <<>> THEN <<x>>
    ELSE IF CompareProfit(x, Head(sorted)) < 0 THEN <<x>> \o sorted
    ELSE <<Head(sorted)>> \o InsertSorted(x, Tail(sorted))

RECURSIVE SortOpportunities(_)
SortOpportunities(opportunities) ==
    IF opportunities = <<>> THEN <<>>
    ELSE InsertSorted(opportunities[Len(opportunities)],
                      SortOpportunities(SubSeq(opportunities, 1, Len(opportunities) - 1)))

\* what getAmountsOut(baseBorrowAmount, [tokenA, tokenB]) returns, in tokenB
QuotesB == {99, 101}

\* what getAmountsOut(amountBOut, [tokenB, tokenA]) returns, for a tokenA of
\* 18 decimals and of 6
AmountsAOut(decimals) ==
    IF decimals = 18
      THEN {Amount(100000000, 0), Amount(100190000, 0), Amount(100240000, -30),
            Amount(100240000, -10), Amount(100240000, 0), Amount(100290000, 0)}
      ELSE {Amount(0, 100000000), Amount(0, 100190000), Amount(0, 100240000),
            Amount(0, 100290000)}

NoEvaluation == [buyDex |-> "none"]
NoCandidate == [id |-> <<>>]

\* scanAllPairs is entered: "const opportunities = []", i = 0, j = 1, and
\* findArbitrage asks the first exchange
NewScan == [pc |-> "quote", i |-> 1, j |-> 2, dex |-> 1, prices |-> <<>>,
            x |-> 0, y |-> 0, candidate |-> NoCandidate, opportunities |-> <<>>,
            calls |-> 0, last |-> NoEvaluation, step |-> "none",
            skipped |-> {}, errors |-> FALSE, maxFee |-> 0]

\* the index pair after (i, j) in "for i ... for j = i + 1 ..." over n
\* elements, <<0, 0>> when the loops are over
NextIndexPair(i, j, n) ==
    IF j < n THEN <<i, j + 1>>
    ELSE IF i + 2 <= n THEN <<i + 1, i + 2>>
    ELSE <<0, 0>>

\* scanAllPairs, after the loops: sort, take the first, execute it if its
\* percentage clears the minimum
EndOfPass(sc) ==
    IF sc.opportunities = <<>> THEN NoScan
    ELSE LET sorted == SortOpportunities(sc.opportunities)
             topOpp == sorted[1]
         IN  IF ~NumLt(topOpp.profitPercent, MIN_PROFIT_PERCENT)
               THEN [sc EXCEPT !.pc = "execute", !.opportunities = sorted,
                               !.calls = @ + 1, !.step = "getFeeData"]
               ELSE NoScan

\* findArbitrage returns: the next pair of tokens, or the end of the pass
NextTokenPair(sc) ==
    LET next == NextIndexPair(sc.i, sc.j, Len(Tokens))
    IN  IF next = <<0, 0>> THEN EndOfPass(sc)
        ELSE [sc EXCEPT !.pc = "quote", !.i = next[1], !.j = next[2],
                        !.dex = 1, !.prices = <<>>, !.x = 0, !.y = 0,
                        !.skipped = {}]

\* findArbitrage, after one exchange was asked: the next exchange, or the
\* loops over the pairs of prices
AfterQuote(sc) ==
    IF sc.dex < Len(Dexes) THEN [sc EXCEPT !.dex = @ + 1]
    ELSE IF Len(sc.prices) >= 2 THEN [sc EXCEPT !.pc = "evaluate", !.x = 1, !.y = 2]
    ELSE NextTokenPair(sc)

\* findArbitrage, after one pair of prices: the next pair, or return
AfterEvaluate(sc) ==
    LET next == NextIndexPair(sc.x, sc.y, Len(sc.prices))
    IN  IF next = <<0, 0>> THEN NextTokenPair(sc)
        ELSE [sc EXCEPT !.pc = "evaluate", !.x = next[1], !.y = next[2]]

\* main(): bot.start() is called; verifySetup awaits getBalance
BotStart ==
    /\ arb.pc = "new"
    /\ arb' = [arb EXCEPT !.pc = "getBalance"]
    /\ UNCHANGED <<mem, scan, trades, config>>
    /\ UNCHANGED mevVars

\* verifySetup: getBalance or getBlockNumber rejects; start() rejects, and
\* main's catch logs "Fatal error:" and exits
VerifyRejected ==
    /\ arb.pc \in {"getBalance", "getBlockNumber"}
    /\ arb' = [arb EXCEPT !.pc = "failed"]
    /\ UNCHANGED <<mem, scan, trades, config>>
    /\ UNCHANGED mevVars

\* verifySetup: getBalance resumes; "balance.lt(minBalance)" throws
\* 'Insufficient balance...', minBalance being parseEther('0.5'); otherwise
\* getBlockNumber is awaited
BalanceRead(balance) ==
    /\ arb.pc = "getBalance"
    /\ arb' = [pc |-> IF IsNegative(Sub(balance, Amount(500000, 0)))
                        THEN "failed" ELSE "getBlockNumber",
               isRunning |-> arb.isRunning, stopped |-> arb.stopped,
               balance |-> balance]
    /\ UNCHANGED <<mem, scan, trades, config>>
    /\ UNCHANGED mevVars

\* verifySetup returns: "this.isRunning = true", and scanContinuously()
\* runs up to the first await of its first scanAllPairs
BlockNumberRead ==
    /\ arb.pc = "getBlockNumber"
    /\ arb' = [pc |-> "started", isRunning |-> TRUE, stopped |-> arb.stopped]
    /\ mem' = mem
    /\ scan' = NewScan
    /\ trades' = <<>>
    /\ config' = config
    /\ UNCHANGED mevVars

\* stop()
stop ==
    /\ arb.pc \in {"getBalance", "getBlockNumber", "started"}
    /\ arb' = [arb EXCEPT !.isRunning = FALSE, !.stopped = TRUE]
    /\ UNCHANGED <<mem, scan, trades, config>>
    /\ UNCHANGED mevVars

\* scanContinuously: the sleep is over and "while (this.isRunning)" holds:
\* scanAllPairs is called
ScanStart ==
    /\ scan.pc = "sleep"
    /\ arb.pc = "started"
    /\ arb.isRunning
    /\ mem' = mem
    /\ scan' = NewScan
    /\ trades' = <<>>
    /\ UNCHANGED <<arb, config>>
    /\ UNCHANGED mevVars

\* scanContinuously: the sleep is over and "while (this.isRunning)" fails:
\* the loop is left
ScanExit ==
    /\ scan.pc = "sleep"
    /\ arb.pc = "started"
    /\ ~arb.isRunning
    /\ scan' = [pc |-> "returned"]
    /\ UNCHANGED <<mem, trades, arb, config>>
    /\ UNCHANGED mevVars

\* a scanner that keeps an exchange without a pair, with a quote of 0
QuoteSkipped_Kept ==
    /\ scan.pc = "quote"
    /\ Feed(mem, AfterQuote([scan EXCEPT
                    !.prices = Append(@, [dex |-> Dexes[scan.dex], priceOut |-> 0]),
                    !.last = NoEvaluation,
                    !.skipped = @ \cup {Dexes[scan.dex]},
                    !.errors = TRUE]))

\* the exchange has no pair for the tokens (getPair returns the zero
\* address), or getPair or getAmountsOut rejects: continue
QuoteSkipped ==
    /\ scan.pc = "quote"
    /\ Feed(mem, AfterQuote([scan EXCEPT !.last = NoEvaluation,
                                         !.skipped = @ \cup {Dexes[scan.dex]},
                                         !.errors = TRUE]))

\* getPair and getAmountsOut resume: prices.push
QuoteRead(priceOut) ==
    /\ scan.pc = "quote"
    /\ Feed(mem, AfterQuote([scan EXCEPT
                    !.prices = Append(@, [dex |-> Dexes[scan.dex], priceOut |-> priceOut]),
                    !.last = NoEvaluation]))

\* a getAmountsOut of the evaluation rejects: continue
EvaluationRejected ==
    /\ scan.pc = "evaluate"
    /\ Feed(mem, AfterEvaluate([scan EXCEPT !.last = NoEvaluation, !.errors = TRUE]))

\* both getAmountsOut of the evaluation resume: the profit and its percentage
Evaluated(amountBOut, amountAOut) ==
    /\ scan.pc = "evaluate"
    /\ LET tokenA == Tokens[scan.i]
           baseBorrowAmount == BaseBorrowAmount(tokenA.decimals)
           p1 == scan.prices[scan.x]
           p2 == scan.prices[scan.y]
           buyOnA == BuyOnA(p1, p2)
           buyDex == IF buyOnA THEN p1 ELSE p2
           sellDex == IF buyOnA THEN p2 ELSE p1
           profit == Sub(amountAOut, RepayAmount(baseBorrowAmount))
           profitInTokenA == NumberOfUnits(profit, tokenA.decimals)
           profitPercent == ProfitPercent(profitInTokenA)
           last == [p1 |-> p1, p2 |-> p2, buyDex |-> buyDex.dex, sellDex |-> sellDex.dex,
                    buyQuote |-> [dex |-> buyDex.dex, amountIn |-> baseBorrowAmount],
                    sellQuote |-> [dex |-> sellDex.dex, amountIn |-> amountBOut],
                    baseBorrowAmount |-> baseBorrowAmount,
                    amountAOut |-> amountAOut, profit |-> profit]
           sc == [scan EXCEPT !.last = last]
       IN  /\ amountAOut \in AmountsAOut(tokenA.decimals)
           /\ IF Gt(profit, Amount(0, 0)) /\ ~NumLt(profitPercent, MIN_PROFIT_PERCENT)
                THEN Feed(mem, [sc EXCEPT !.pc = "getPair",
                                  !.candidate = [id |-> <<scan.i, scan.j>>,
                                                 tokenA |-> scan.i,
                                                 buyDex |-> buyDex.dex,
                                                 sellDex |-> sellDex.dex,
                                                 profitPercent |-> profitPercent,
                                                 estimatedProfit |-> profit,
                                                 borrowAmount |-> baseBorrowAmount]])
                ELSE Feed(mem, AfterEvaluate(sc))

\* factory.getPair of the candidate rejects: continue, nothing is pushed
PairRejected ==
    /\ scan.pc = "getPair"
    /\ Feed(mem, AfterEvaluate([scan EXCEPT !.candidate = NoCandidate,
                                           !.last = NoEvaluation,
                                           !.errors = TRUE]))

\* factory.getPair resumes: opportunities.push
PairFetched ==
    /\ scan.pc = "getPair"
    /\ Feed(mem, AfterEvaluate([scan EXCEPT
                    !.opportunities = Append(@, scan.candidate),
                    !.candidate = NoCandidate,
                    !.last = NoEvaluation]))

\* { ...tradeRecord, more }
Spread(tradeRecord, more) ==
    [f \in DOMAIN tradeRecord \cup DOMAIN more |->
        IF f \in DOMAIN more THEN more[f] ELSE tradeRecord[f]]

\* executeOpportunity logs a terminal record and returns: the pass ends
Recorded(status, more) ==
    /\ mem' = mem
    /\ scan' = NoScan
    /\ trades' = logTrade(Spread(TradeRecord(scan.opportunities[1], status), more))
    /\ UNCHANGED <<arb, config>>
    /\ UNCHANGED mevVars

\* executeOpportunity: getFeeData rejects or has no gasPrice, executeArbitrage
\* rejects, or tx.wait() rejects: the catch block logs the failed record with
\* error.message.  The wait() of ethers rejects with "transaction failed"
\* when the transaction was included and its receipt has status 0.
ExecutionError(message) ==
    /\ scan.pc = "execute"
    /\ message = "transaction failed" => scan.step = "wait"
    /\ Recorded("failed", [error |-> message])

\* executeOpportunity: "await getFeeData()" resumes with a gasPrice, in gwei:
\* maxFee, and contract.executeArbitrage is awaited
FeeDataRead(gasPrice) ==
    /\ scan.pc = "execute"
    /\ scan.step = "getFeeData"
    /\ Feed(mem, [scan EXCEPT !.step = "executeArbitrage",
                              !.maxFee = gasPrice + MaxGasCostGwei])

\* executeOpportunity: the transaction is sent; tx.wait() is awaited
TransactionSent ==
    /\ scan.pc = "execute"
    /\ scan.step = "executeArbitrage"
    /\ Feed(mem, [scan EXCEPT !.step = "wait"])

\* executeOpportunity: "await tx.wait()" resumes with the receipt; status 1
\* logs the success record, another status the failed record, both with
\* gasCost, receipt.gasUsed.mul(maxFee), gasUsed in units of 100,000
Executed(status, gasUsed) ==
    /\ scan.pc = "execute"
    /\ scan.step = "wait"
    /\ IF status = 1
         THEN Recorded("success", [gasCost |-> gasUsed * scan.maxFee])
         ELSE Recorded("failed", [error |-> "Transaction reverted on chain",
                                  gasCost |-> gasUsed * scan.maxFee])

NextScan ==
    \/ BotStart
    \/ VerifyRejected
    \/ \E balance \in Balances : BalanceRead(balance)
    \/ BlockNumberRead
    \/ ScanStart
    \/ QuoteSkipped
    \/ \E priceOut \in QuotesB : QuoteRead(priceOut)
    \/ EvaluationRejected
    \/ \E amountBOut \in QuotesB :
          \E amountAOut \in AmountsAOut(18) \cup AmountsAOut(6) :
             Evaluated(amountBOut, amountAOut)
    \/ PairRejected
    \/ PairFetched
    \/ \E message \in {"could not detect network", "transaction failed"} :
          ExecutionError(message)
    \/ \E gasPrice \in {30, 100} : FeeDataRead(gasPrice)
    \/ TransactionSent
    \/ \E status \in {0, 1}, gasUsed \in {1, 3} : Executed(status, gasUsed)

SpecScan == Init /\ [][NextScan]_vars

\* scanContinuously while isRunning: every awaited provider call settles and
\* the timer of the sleep between two passes fires
SpecScanLive == Init /\ [][NextScan]_vars /\ WF_vars(NextScan)

\* both bots from their start under any configuration: ProductionMEVBot up
\* to mempool.start, the arbitrage bot and its passes
NextBoot ==
    \/ Startup
    \/ NextScan

\* any configuration, and no transaction of the account queued
InitBoot == InitStart /\ pendingCount = 0

SpecBoot == InitBoot /\ [][NextBoot]_vars

\* the arbitrage bot with stop() called at any moment after start()
NextStop ==
    \/ NextScan
    \/ stop
    \/ ScanExit

SpecStop == Init /\ [][NextStop]_vars /\ WF_vars(NextScan \/ ScanExit)

\* ------------------------------------------------------------- claims
\* C1: with no handleBundleFailure or resync in between, the k-th
\* getNextNoncePair returns (n+2(k-1), n+2(k-1)+1), n the allocatable number
\* before the first: the pairs strictly increase and share no nonce.
C1_PairsSequential ==
    /\ \A k \in 1..Len(allocLog) :
          allocLog[k] = <<syncBase + 2 * (k - 1), syncBase + 2 * (k - 1) + 1>>
    /\ \A i, j \in 1..Len(allocLog) :
          i < j => allocLog[i][1] < allocLog[i][2] /\ allocLog[i][2] < allocLog[j][1]

C1_Witness == Len(allocLog) >= 2 /\ event.op = "alloc"

\* C2: when handleBundleFailure completes the in-flight set is empty,
\* whatever was in flight before, and currentNonce is the chain's 'latest'
\* count; the next getNextNoncePair returns a pair starting at that count.
C2_FailureResetsToLatest ==
    /\ event.op = "failure" => pendingNonces = {} /\ currentNonce = latestCount
    /\ (syncKind = "failure" /\ Len(allocLog) >= 1) => allocLog[1][1] = syncLatest

C2_Witness ==
    /\ event.op = "alloc"
    /\ syncKind = "failure"
    /\ Len(allocLog) = 1
    /\ syncLatest > 0
    /\ pendingCount > latestCount

\* C3: resyncIfNeeded changes nothing when fewer than 10 blocks have elapsed
\* since the last sync and at most 10 nonces are in flight; otherwise it goes
\* on to a full resync: count re-read, in-flight set emptied, last-sync block
\* set to the block it read.
C3_ResyncFrame ==
    /\ event.op \in {"resyncSkip", "resyncStart"} =>
          /\ (event.op = "resyncSkip") <=>
                (event.elapsed < 10 /\ event.inflight <= 10)
          /\ nmVars = event.before
    /\ event.op = "resync" =>
          /\ currentNonce = pendingCount
          /\ pendingNonces = {}
          /\ lastSyncBlock = event.block

C3_Witness ==
    /\ event.op = "resyncStart"
    /\ event.inflight > 10
    /\ event.elapsed < 10

\* C4 (as amended): a triggered resyncIfNeeded empties the in-flight set as
\* handleBundleFailure does, but leaves currentNonce at the 'pending' count
\* where handleBundleFailure leaves the 'latest' count; the two agree when
\* the account has no queued transaction.
C4_ResyncReadsPending ==
    /\ event.op = "resync" => currentNonce = pendingCount /\ pendingNonces = {}
    /\ event.op = "failure" => currentNonce = latestCount /\ pendingNonces = {}
    /\ (event.op \in {"resync", "failure"} /\ pendingCount = latestCount) =>
          currentNonce = latestCount

C4_Witness == event.op = "resync" /\ pendingCount > latestCount

\* C4 (as claimed): a triggered resyncIfNeeded leaves currentNonce at the
\* confirmed count, as handleBundleFailure does.
C4_ResyncSameAsFailure ==
    event.op = "resync" => currentNonce = latestCount /\ pendingNonces = {}

\* the bot is running and resyncIfNeeded would resynchronize
Stale == phase = "running" /\ ResyncDue(blockNumber)

\* C5: whenever 10 or more blocks have elapsed since the last sync or more
\* than 10 nonces are in flight, a tick of the periodic timer eventually
\* resynchronizes the NonceManager, even if no bundle attempt runs or fails.
C5_TimerResyncs == Stale ~> ~Stale

\* an attempt that holds a pair whose outcome is still open
Unresolved(r) == r.pc \in {"fee", "sign", "block", "send", "sim", "wait"} /\ ~r.included
\* an attempt whose bundle is signed and may still be included
SignedOpen(r) == r.pc \in {"block", "send", "sim", "wait"} /\ ~r.included

\* C6: no nonce is held by two attempts that are both still unresolved, and
\* no nonce is signed into two bundles that could both still be included.
C6_NoncesUnique ==
    /\ \A r \in Running : Unresolved(r) =>
          /\ CopiesIn(r, att) = 1
          /\ \A q \in Running \ {r} : Unresolved(q) => Held(r) \cap Held(q) = {}
    /\ \A r \in Running : SignedOpen(r) =>
          /\ CopiesIn(r, att) = 1
          /\ \A q \in Running \ {r} : SignedOpen(q) => Held(r) \cap Held(q) = {}

\* C7: each pair returned by getNextNoncePair starts at a number greater than
\* or equal to the account's 'latest' transaction count at allocation time.
C7_PairChainAcceptable == event.op = "alloc" => event.pair[1] >= latestCount

\* C8: an attempt whose simulation returned an error object ends by returning
\* false, with the in-flight set empty after its handleBundleFailure.
C8_SimErrorReturnsFalse ==
    ended.result # "none" /\ ended.why = "sim" =>
        /\ ended.result = "false"
        /\ ended.calls >= 1
        /\ pendingNonces = {}

\* C9: an attempt that allocated nonces returns true exactly when the bundle
\* resolution is 0, having called confirmBundle with its pair and never
\* handleBundleFailure; every other attempt calls handleBundleFailure exactly
\* once and returns false.
C9_OutcomeRouting ==
    ended.result # "none" /\ ended.front # -1 =>
        /\ ended.result = "true" <=> ended.from = "wait"
        /\ ended.result = "true" =>
              /\ ended.calls = 0
              /\ event.op = "confirm"
              /\ event.pair = <<ended.front, ended.front + 1>>
        /\ ended.result # "true" =>
              /\ ended.result = "false"
              /\ ended.calls = 1
              /\ event.op = "failure"

\* C10: an exception during fee-data retrieval, signing, reading the block
\* height or bundle submission ends the attempt with handleBundleFailure
\* called and false returned; no exception leaves executeSandwich.
C10_ExceptionsContained ==
    /\ ended.result # "threw"
    /\ ended.result # "none" /\ ended.why = "submit" =>
          /\ ended.result = "false"
          /\ ended.calls >= 1


\* an attempt that has signed its transactions
HasSigned(r) == r.pc \in {"block", "send", "sim", "wait"}

\* C11: an opportunity that passes the gross check but whose net profit at
\* the current gas cost is below the minimum is rejected: nothing is signed
\* and no bundle is built or submitted for it.
C11_NetRejectedNeverSigns ==
    /\ \A r \in Running :
          /\ (r.pc = "sign" \/ HasSigned(r)) =>
                /\ r.profit > TotalGasCost(r.fee, VictimGasLimitOf(TargetTxParsed(r.raw)))
                /\ r.profit - TotalGasCost(r.fee, VictimGasLimitOf(TargetTxParsed(r.raw)))
                      >= MinProfit
          /\ r.why = "net" => r.pc = "failure" /\ r.bundle = <<>>
    /\ ended.result # "none" /\ ended.why = "net" => ended.from = "failure"
C11_Witness == ended.result = "false" /\ ended.why = "net" /\ ended.front >= 0

\* C12: an opportunity rejected by the profitability check, gross or net,
\* causes no getNextNoncePair call and no change to currentNonce or
\* pendingNonces.
C12_RejectedAllocatesNothing ==
    ended.result # "none" /\ ended.why \in {"gross", "net"} =>
        /\ ended.front = -1
        /\ event.op = "none"

\* C13: in every bundle built by executeSandwich the transactions of the
\* signing account are the front-run with nonce n and the back-run with nonce
\* n+1, the pair of the one getNextNoncePair call of that attempt.
C13_BundleNonces ==
    /\ event.op = "alloc" =>
          \E r \in Running : r.pc = "fee" /\ <<r.front, r.back>> = event.pair
    /\ \A r \in Running : HasSigned(r) =>
          /\ {i \in 1..Len(r.bundle) : r.bundle[i].signedTransaction.from = "wallet"} = {1, 3}
          /\ r.bundle[1].signedTransaction.nonce = r.front
          /\ r.bundle[3].signedTransaction.nonce = r.back
          /\ r.bundle[3].signedTransaction.nonce = r.bundle[1].signedTransaction.nonce + 1
C13_Witness == \E r \in Running : r.pc = "wait" /\ r.front > 0

\* C14: every bundle submitted to the relay has exactly three entries, the
\* front-run, the victim and the back-run in that order, the victim entry
\* being the opportunity's targetTxRaw.
C14_BundleOrder ==
    \A r \in Running : r.pc \in {"sim", "wait"} =>
        /\ Len(r.bundle) = 3
        /\ r.bundle[1].signedTransaction = FrontRunTx(r.front)
        /\ r.bundle[2].signedTransaction = r.raw
        /\ r.bundle[2].signedTransaction \in Raws
        /\ r.bundle[3].signedTransaction = BackRunTx(r.back, r.fee, r.backRunPriorityFee)
C14_Witness ==
    \E r, q \in Running : r.pc = "sim" /\ q.pc = "sim" /\ r.raw # q.raw

\* C19: at most one attempt is between its nonce allocation and its
\* resolution at any time.
C19_OneAttemptAtATime ==
    \A r \in Running : Unresolved(r) =>
        /\ CopiesIn(r, att) = 1
        /\ \A q \in Running \ {r} : ~Unresolved(q)

\* C20: getNextNoncePair reads currentNonce, marks the pair in flight and
\* advances by 2 in one step, so the pairs returned with no resync between
\* them are pairwise disjoint, whoever the callers are.
C20_AllocationIndivisible ==
    /\ event.op = "alloc" =>
          /\ event.pair[1] \in pendingNonces
          /\ event.pair[2] \in pendingNonces
          /\ currentNonce = event.pair[1] + 2
    /\ \A i, j \in 1..Len(allocLog) : i # j =>
          {allocLog[i][1], allocLog[i][2]} \cap {allocLog[j][1], allocLog[j][2]} = {}
C20_Witness ==
    /\ event.op = "alloc"
    /\ Len(allocLog) >= 2
    /\ \A k \in 1..Len(allocLog) : allocLog[k][1] \in pendingNonces

\* the input amount of a swap: the native value for the native-in selector,
\* the amountIn argument for the two token-in selectors
InputAmount(tx) == IF tx.selector = "0x7ff36ab5" THEN tx.value ELSE tx.amountIn

\* C18: a pending transaction whose input amount is below the minimum trade
\* size, 0.1 ETH, yields no Opportunity: the callback is not invoked for it.
C18_BelowMinimumNoOpportunity ==
    (/\ mem.pc = "done"
     /\ mem.tx.selector \in Selectors
     /\ IsNegative(Sub(InputAmount(mem.tx), Amount(MinTradeMicro, 0))))
        => ~mem.called

\* the repayment, computed by dividing first: the borrow amounts are
\* multiples of 10000 in both parts
RepaymentOf(baseBorrowAmount) ==
    Amount((baseBorrowAmount.micro \div 10000) * 10009,
           (baseBorrowAmount.atto \div 10000) * 10009)

\* C15: of two quotes for the probe amount the exchange that returns less is
\* the buy venue and the other the sell venue; the profit is what selling
\* the bought amount on the sell venue returns minus
\* borrow amount * 10009 / 10000.
C15_BuyWhereLess ==
    scan.pc # "sleep" /\ scan.last # NoEvaluation =>
        LET e == scan.last
        IN  /\ e.p1.priceOut < e.p2.priceOut =>
                  e.buyDex = e.p1.dex /\ e.sellDex = e.p2.dex
            /\ e.p2.priceOut < e.p1.priceOut =>
                  e.buyDex = e.p2.dex /\ e.sellDex = e.p1.dex
            /\ e.buyQuote = [dex |-> e.buyDex, amountIn |-> e.baseBorrowAmount]
            /\ e.sellQuote.dex = e.sellDex
            /\ e.profit = Sub(e.amountAOut, RepaymentOf(e.baseBorrowAmount))
C15_Witness ==
    /\ scan.pc = "getPair"
    /\ scan.last.p2.priceOut < scan.last.p1.priceOut
    /\ scan.last.buyDex = "SushiSwap"

\* the candidate's proceeds exceed the repayment and its profit is at least
\* 0.15 % of the 100 units borrowed
MeetsMinimum(c) ==
    /\ Gt(c.estimatedProfit, Amount(0, 0))
    /\ IF Tokens[c.tokenA].decimals = 18
         THEN ~IsNegative(Sub(c.estimatedProfit, Amount(MinProfitMicro, 0)))
         ELSE ~IsNegative(Sub(c.estimatedProfit, Amount(0, MinProfitMicro)))

\* C16: a candidate is emitted by findArbitrage, and executed, only if its
\* proceeds exceed the borrowed amount plus the fee and its profit percentage
\* is at or above the minimum.
C16_BelowMinimumNeverForwarded ==
    scan.pc # "sleep" =>
        /\ scan.candidate # NoCandidate => MeetsMinimum(scan.candidate)
        /\ \A k \in 1..Len(scan.opportunities) : MeetsMinimum(scan.opportunities[k])

\* C17: in one pass executeOpportunity is called at most once, with an
\* opportunity of the highest estimatedProfit among those found in the pass.
C17_BestOnly ==
    scan.pc # "sleep" =>
        /\ scan.calls <= 1
        /\ scan.calls = 1 <=> scan.pc = "execute"
        /\ scan.pc = "execute" =>
              \A k \in 1..Len(scan.opportunities) :
                 ~Gt(scan.opportunities[k].estimatedProfit,
                     scan.opportunities[1].estimatedProfit)
C17_Witness ==
    /\ scan.pc = "execute"
    /\ Len(scan.opportunities) = 3
    /\ Gt(scan.opportunities[1].estimatedProfit, scan.opportunities[2].estimatedProfit)
    /\ Gt(scan.opportunities[2].estimatedProfit, scan.opportunities[3].estimatedProfit)
    /\ scan.opportunities[1].id = <<1, 3>>
    /\ scan.opportunities[3].id = <<2, 3>>

\* the records of one attempt: a pending one, then at most one terminal one
TerminalStatus == {"success", "failed"}

\* C21: every executor attempt, arbitrage or sandwich, hands the trade logger
\* one record with status pending at submission and then exactly one record
\* with status success or failed at resolution; no attempt ends without a
\* terminal record.
C21_AttemptsRecorded ==
    /\ scan.pc = "execute" =>
          /\ Len(trades) = 1
          /\ trades[1].status = "pending"
    /\ scan.pc = "sleep" /\ trades # <<>> =>
          /\ Len(trades) = 2
          /\ trades[1].status = "pending"
          /\ trades[2].status \in TerminalStatus
          /\ trades[2].id = trades[1].id
    /\ ended.result # "none" /\ ended.front # -1 =>
          /\ Len(trades) = 2
          /\ trades[1].status = "pending"
          /\ trades[2].status \in TerminalStatus

\* the arbitrage half of C21 by itself
ArbitrageRecorded ==
    /\ scan.pc = "execute" => Len(trades) = 1 /\ trades[1].status = "pending"
    /\ scan.pc = "sleep" /\ trades # <<>> =>
          /\ Len(trades) = 2
          /\ trades[1].status = "pending"
          /\ trades[2].status \in TerminalStatus

\* C22: in every reachable state every number in the in-flight set is
\* greater than or equal to the account's last confirmed transaction count.
C22_InFlightNotBelowConfirmed == \A n \in pendingNonces : n >= latestCount

\* C23: confirmBundle(n, n+1) removes n and n+1 from the in-flight set and
\* changes nothing else: currentNonce, lastSyncBlock and every other
\* in-flight number are as they were.
C23_ConfirmFrame ==
    event.op = "confirm" =>
        /\ event.pair[2] = event.pair[1] + 1
        /\ pendingNonces = event.before[2] \ {event.pair[1], event.pair[2]}
        /\ currentNonce = event.before[1]
        /\ lastSyncBlock = event.before[3]
C23_Witness ==
    /\ event.op = "confirm"
    /\ {event.pair[1], event.pair[2]} \subseteq event.before[2]
    /\ pendingNonces # {}

\* C24: initialize sets currentNonce to the account's 'pending' transaction
\* count, empties the in-flight set and records the current block height;
\* and in the running bot no getNextNoncePair call happens before initialize
\* has completed.
C24_InitializeFirst ==
    /\ event.op = "init" /\ phase = "nonceBlock" =>
          /\ currentNonce = pendingCount
          /\ pendingNonces = {}
    /\ event.op = "init" /\ phase = "network" =>
          /\ lastSyncBlock = blockNumber
          /\ pendingNonces = {}
    /\ event.op = "alloc" => phase = "running"
    /\ phase \in {"construct", "balance", "create", "nonceCount", "nonceBlock",
                 "network", "fatal"} =>
          /\ att = EmptyBag
          /\ pendingNonces = {}
          /\ ended = NoEnd
    /\ phase \in {"construct", "balance", "create", "nonceCount"} =>
          currentNonce = 0 /\ lastSyncBlock = 0
C24_Witness ==
    /\ event.op = "alloc"
    /\ event.pair[1] > 0
    /\ latestCount < event.pair[1]
    /\ lastSyncBlock > StartBlock

\* C25: nothing is retried inside one attempt: each executeSandwich
\* invocation calls getNextNoncePair at most once and submits at most one
\* bundle to the relay, and after a failed or not-included outcome it
\* submits nothing further for that opportunity.
C25_NoRetry ==
    /\ event.op = "alloc" =>
          /\ ended = NoEnd
          /\ \E r \in Running :
                r.pc = "fee" /\ <<r.front, r.back>> = event.pair /\ r.sent = 0 /\ r.calls = 0
    /\ \A r \in Running :
          /\ r.sent <= 1
          /\ r.sent = 1 => r.pc \in {"send", "sim", "wait", "failure"}
          /\ r.calls >= 1 => r.pc = "failure"
          /\ r.pc \in {"send", "sim", "wait"} => r.sent = 1 /\ r.calls = 0
C25_Witness ==
    \E r \in Running :
        r.pc = "failure" /\ r.why = "notIncluded" /\ r.sent = 1 /\ r.calls = 2

\* C26: the gas cost is (front-run gas limit + victim gas limit + back-run
\* gas limit) * max fee per gas, the victim's limit being 200,000 when the
\* parsed transaction has none; the net profit is the gross profit minus
\* that cost when the gross profit is larger and 0 otherwise, never
\* negative.
C26_NetProfitFloored ==
    event.op = "netProfit" =>
        /\ event.victimGasLimit \in {4, 7}
        /\ event.totalGasCostWei = (6 + event.victimGasLimit + 7) * event.maxFee
        /\ event.estimatedProfitWei > event.totalGasCostWei =>
              event.netProfitWei = event.estimatedProfitWei - event.totalGasCostWei
        /\ event.estimatedProfitWei <= event.totalGasCostWei => event.netProfitWei = 0
        /\ event.netProfitWei >= 0
C26_Witness ==
    /\ event.op = "netProfit"
    /\ event.victimGasLimit = 7
    /\ event.estimatedProfitWei < event.totalGasCostWei
    /\ event.netProfitWei = 0

\* C27: the back-run's priority fee per gas is the base priority fee plus
\* floor(floor(net profit * 80 / 100) / back-run gas limit), so what the
\* back-run pays the validator above the base priority fee never exceeds
\* 80% of the net profit.
C27_BribeWithinShare ==
    /\ event.op = "netProfit" /\ event.signs =>
          /\ event.backRunPriorityFee =
                event.maxPriorityFeePerGas + ((event.netProfitWei * 80) \div 100) \div 7
          /\ (event.backRunPriorityFee - event.maxPriorityFeePerGas) * 7 * 100
                <= 80 * event.netProfitWei
          /\ \E r \in Running :
                r.pc = "sign" /\ r.backRunPriorityFee = event.backRunPriorityFee
    /\ \A r \in Running : HasSigned(r) =>
          /\ r.bundle[3].signedTransaction.maxPriorityFeePerGas = r.backRunPriorityFee
          /\ r.bundle[3].signedTransaction.gasLimit = 7
C27_Witness ==
    \E r \in Running :
        /\ r.pc = "wait"
        /\ r.profit - TotalGasCost(r.fee, VictimGasLimitOf(TargetTxParsed(r.raw))) = 23
        /\ r.bundle[3].signedTransaction.maxPriorityFeePerGas = 3

\* C28: analyzeTransaction emits an opportunity only for a transaction that
\* is addressed to the configured router, carries one of the three swap
\* selectors and decodes to a path of at least two entries; a transaction
\* failing any of these yields none, and an emitted opportunity has tokenIn
\* equal to the first path entry and tokenOut equal to the last.
C28_OnlyRouterSwaps ==
    mem.pc = "done" =>
        /\ mem.called <=> mem.opportunity.type = "sandwich"
        /\ mem.called =>
              /\ mem.tx.to \in {"router", "Router"}
              /\ mem.tx.selector \in {"0x7ff36ab5", "0x18cbafe5", "0x38ed1739"}
              /\ mem.tx.decodes
              /\ Len(mem.tx.path) >= 2
              /\ mem.opportunity.tokenIn = Head(mem.tx.path)
              /\ mem.opportunity.tokenOut = mem.tx.path[Len(mem.tx.path)]
              /\ mem.opportunity.targetTxRaw = mem.rawTx
C28_Witness ==
    /\ mem.pc = "done"
    /\ mem.called
    /\ mem.tx.to = "Router"
    /\ Len(mem.tx.path) = 3
    /\ mem.opportunity.tokenOut = "WETH"

\* C29: a fetch or decode failure while handling one pending-transaction
\* notification is swallowed for that transaction only: no opportunity is
\* emitted for it, nothing is raised out of the handler, and the next
\* notification is taken up.
C29_FailureSwallowed ==
    /\ mem.pc # "unhandled"
    /\ mem.pc = "done" /\ mem.error # "none" =>
          /\ ~mem.called
          /\ mem.opportunity = NoOpportunity
          /\ ENABLED (\E tx \in PendingTxs : PendingEvent(tx))
C29_Witness ==
    /\ mem.pc = "done"
    /\ mem.error = "getRawTransaction"
    /\ mem.tx.to = "router"
    /\ mem.tx.decodes

\* a pass in which a provider call failed or an exchange had no pair
FailedPass == scan.pc # "sleep" /\ scan.errors

\* the exchanges skipped for the current pair of tokens are no venue
SkippedNoVenue ==
    scan.pc # "sleep" =>
        /\ \A k \in 1..Len(scan.prices) : scan.prices[k].dex \notin scan.skipped
        /\ scan.last # NoEvaluation =>
              scan.last.buyDex \notin scan.skipped /\ scan.last.sellDex \notin scan.skipped
        /\ scan.candidate # NoCandidate =>
              /\ scan.candidate.buyDex \notin scan.skipped
              /\ scan.candidate.sellDex \notin scan.skipped

\* C30: a provider error during a scan pass does not halt the scan loop:
\* after a failed pass scanContinuously eventually starts another pass; and
\* an exchange whose factory returns the zero address or whose quote call
\* fails is skipped and never appears as buy or sell venue.
C30_ScanGoesOn == [] SkippedNoVenue /\ (FailedPass ~> scan = NewScan)
C30_Witness ==
    /\ scan.pc = "quote"
    /\ scan.errors
    /\ scan.skipped = {"QuickSwap"}
    /\ Len(scan.opportunities) >= 1


\* C31: scanning never starts while the account balance is below the
\* configured minimum: the mempool bot leaves its balance loop, and so
\* reaches mempool.start, only on a balance check that read at least the
\* minimum, and the arbitrage bot's start fails, with isRunning false and no
\* scan pass begun, when the balance it read is below the minimum.
C31_BalanceBeforeScanning ==
    /\ [](/\ event.op = "checkBalance" =>
              (phase = "create" <=>
                  ~IsNegative(Sub(event.balance, Amount(config.minEthBalance, 0))))
          /\ ("balance" \in DOMAIN arb /\ IsNegative(Sub(arb.balance, Amount(500000, 0)))) =>
                arb.pc = "failed"
          /\ arb.pc = "failed" => ~arb.isRunning /\ scan = NoScan /\ trades = <<>>)
    /\ [][/\ (phase = "balance" /\ phase' \notin {"balance", "fatal"}) =>
               (event'.op = "checkBalance" /\ phase' = "create")
          /\ phase' = "running" => phase \in {"network", "running"}
          /\ arb.pc = "failed" => arb'.pc = "failed"]_vars

\* C32: a missing signing key or a missing helper-contract address is fatal
\* at startup: the construction fails, the process ends in "fatal", and
\* neither mempool monitoring nor the executor's initialization nor any
\* nonce allocation ever happens.
C32_MissingConfigFatal ==
    /\ []((config.privateKey = "" \/ config.helperContract = "") =>
            /\ phase \in {"construct", "fatal"}
            /\ currentNonce = 0 /\ pendingNonces = {} /\ lastSyncBlock = 0
            /\ issued = {} /\ att = EmptyBag
            /\ event.op \notin {"init", "alloc"})
    /\ [][phase = "fatal" => phase' = "fatal"]_vars

C32_Witness ==
    /\ config.privateKey = "key"
    /\ config.helperContract = ""
    /\ event.op = "validateConfig"
    /\ phase = "fatal"

\* C33: when an arbitrage transaction is included but reverts on chain,
\* executeOpportunity records a failed outcome that carries the gas cost,
\* gas used times fee; the failed outcome recorded for a send error carries
\* no gas cost.
C33_RevertCarriesGasCost ==
    \A k \in 1..Len(trades) :
       trades[k].status = "failed" =>
          (("gasCost" \in DOMAIN trades[k] /\ trades[k].gasCost > 0) <=>
              trades[k].error \in {"Transaction reverted on chain", "transaction failed"})

\* C34: in every reachable state of the NonceManager, under any
\* interleaving of getNextNoncePair, confirmBundle, handleBundleFailure and
\* resyncIfNeeded, every number in the in-flight set is strictly less than
\* currentNonce.
C34_InFlightBelowCurrent == \A n \in pendingNonces : n < currentNonce

C34_Witness ==
    /\ event.op = "alloc"
    /\ syncKind = "failure"
    /\ Cardinality(pendingNonces) = 2
    /\ currentNonce < MaxNonce

\* C35: the nonces of an unresolved attempt stay in the in-flight set until
\* that same attempt confirms or a resync clears the set: a step in which
\* another attempt acts, confirmBundle included, never removes nonces held
\* by an attempt that is and stays unresolved.
C35_ConfirmOwnNoncesOnly ==
    [][\A r \in Running :
          (/\ Unresolved(r)
           /\ CopiesIn(r, att') >= CopiesIn(r, att)
           /\ Held(r) \subseteq pendingNonces) =>
             (Held(r) \subseteq pendingNonces' \/ event'.op \in {"failure", "resync"})]_vars

\* C36: handleBundleFailure changes only currentNonce and the in-flight set
\* and leaves lastSyncBlock unchanged: lastSyncBlock moves only in initialize
\* and in a triggered resyncIfNeeded, so the block count resyncIfNeeded
\* compares is measured from the last of those, not from the last
\* handleBundleFailure.
C36_FailureKeepsSyncBlock ==
    [][/\ event'.op = "failure" => lastSyncBlock' = lastSyncBlock
       /\ lastSyncBlock' # lastSyncBlock => event'.op \in {"init", "resync"}
       /\ event'.op \in {"resyncSkip", "resyncStart"} =>
             event'.elapsed = blockNumber' - lastSyncBlock']_vars

C36_Witness ==
    /\ event.op = "resyncStart"
    /\ syncKind = "failure"
    /\ event.inflight = 0
    /\ event.elapsed >= ResyncBlocks
    /\ lastSyncBlock = StartBlock

C38_EndsSettled ==
    ended.result # "none" =>
       /\ ended.result \in {"true", "false"}
       /\ ended.front # -1 => (ended.result = "true" \/ ended.calls >= 1)

====
